---- MODULE Spec2Model ----
(***************************************************************************)
(* Model of aequitas_flow/flow.py: Site, Channel and Network, the graph    *)
(* operations (add/discard input/output, site and channel creation and     *)
(* lookup) and the levelling pass Network.compute_order.                   *)
(*                                                                         *)
(* Objects are numbered by the counter that names them: site n is the      *)
(* object whose id is "_s<n>", channel n the one whose id is "_c<n>".      *)
(* A slot above the counter holds the values the constructor would give.   *)
(***************************************************************************)
EXTENDS Integers, Sequences, FiniteSets, TLC

\* ---------------------------------------------------------------- bounds
\* objects (sites and channels) a run creates, lists passed as `sites`, site
\* ids given to the Network constructor, sites made outside the network's
\* mapping, sources a channel is given
MaxObjects == 4
MaxList == 2
MaxSeed == 3
MaxLoose == 1
MaxSources == 2

\* ------------------------------------------------------ program constants
INITIAL_SITE_LEVEL == 4000
UNASSIGNED == -1
ORPHAN == -1
UNREACHED == 1000
CAP_SLACK == 10
WARN_SLACK == 1

\* ------------------------------------------------------------- encodings
MaxSlots == IF MaxSeed > MaxObjects THEN MaxSeed ELSE MaxObjects
SiteIdx == 0 .. (MaxSlots - 1)
ChanIdx == 0 .. (MaxSlots - 1)
NoSite == -1
NoChan == -1
NoLabel == "None"
Names == {"A", "_s0", "_s1"}

\* Network._next_site_ix / _next_channel_ix format the counter into the id
SiteId(n) == "_s" \o ToString(n)
ChannelId(n) == "_c" \o ToString(n)

\* Python values used as keys of Site._sites: a str, or an (id, site) tuple
PyStr(x) == [tag |-> "str", id |-> x, site |-> NoSite]
PyTuple(i, a) == [tag |-> "tuple", id |-> i, site |-> a]

\* a `sites` argument: one site, or a list of sites
One(s) == [isList |-> FALSE, elems |-> <<s>>]
List(q) == [isList |-> TRUE, elems |-> q]

RECURSIVE SeqsUpTo(_, _)
SeqsUpTo(S, n) ==
  IF n = 0 THEN {<<>>}
  ELSE LET P == SeqsUpTo(S, n - 1) IN
       P \cup {Append(q, e) : q \in {p \in P : Len(p) = n - 1}, e \in S}

Range(q) == {q[k] : k \in 1 .. Len(q)}
IndexOf(q, e) == CHOOSE k \in 1 .. Len(q) : q[k] = e /\ \A j \in 1 .. (k - 1) : q[j] # e
RemoveAt(q, k) == SubSeq(q, 1, k - 1) \o SubSeq(q, k + 1, Len(q))

VARIABLES site_ix, channel_ix, N_sites, N_channels,
          s_label, s_sites, s_producer, s_level, s_source,
          c_built, c_label, c_source, c_target, c_level,
          ret

vars == <<site_ix, channel_ix, N_sites, N_channels,
          s_label, s_sites, s_producer, s_level, s_source,
          c_built, c_label, c_source, c_target, c_level, ret>>

\* the whole program state as one value, threaded through the operations
St == [site_ix |-> site_ix, channel_ix |-> channel_ix,
       N_sites |-> N_sites, N_channels |-> N_channels,
       s_label |-> s_label, s_sites |-> s_sites, s_producer |-> s_producer,
       s_level |-> s_level, s_source |-> s_source,
       c_built |-> c_built, c_label |-> c_label, c_source |-> c_source,
       c_target |-> c_target, c_level |-> c_level]

Install(st) ==
  /\ site_ix' = st.site_ix
  /\ channel_ix' = st.channel_ix
  /\ N_sites' = st.N_sites
  /\ N_channels' = st.N_channels
  /\ s_label' = st.s_label
  /\ s_sites' = st.s_sites
  /\ s_producer' = st.s_producer
  /\ s_level' = st.s_level
  /\ s_source' = st.s_source
  /\ c_built' = st.c_built
  /\ c_label' = st.c_label
  /\ c_source' = st.c_source
  /\ c_target' = st.c_target
  /\ c_level' = st.c_level

EmptyDict == [kind |-> "dict", elems |-> {}]

\* Network.__init__ before the seeding loop
Network0 ==
  [site_ix |-> -1, channel_ix |-> -1, N_sites |-> <<>>, N_channels |-> <<>>,
   s_label |-> [s \in SiteIdx |-> NoLabel],
   s_sites |-> [s \in SiteIdx |-> EmptyDict],
   s_producer |-> [s \in SiteIdx |-> NoChan],
   s_level |-> [s \in SiteIdx |-> INITIAL_SITE_LEVEL],
   s_source |-> [s \in SiteIdx |-> "unset"],
   c_built |-> [c \in ChanIdx |-> FALSE],
   c_label |-> [c \in ChanIdx |-> NoLabel],
   c_source |-> [c \in ChanIdx |-> <<>>],
   c_target |-> [c \in ChanIdx |-> {}],
   c_level |-> [c \in ChanIdx |-> UNASSIGNED]]

NoArg == List(<<>>)
NoWarn == [failed |-> FALSE, orphaned |-> FALSE, unreachable |-> FALSE]

\* what the last call was and how it ended: the observable outcome of a step
Ret(op, err, site) ==
  [op |-> op, err |-> err, site |-> site, i |-> 0, warn |-> NoWarn, rep |-> 0]

\* ------------------------------------------------------------------ Site
\* Site.__init__(nw, *args): args is none, one str, or one-or-more Sites
ArgNone == [kind |-> "none", label |-> NoLabel, subs |-> <<>>]
ArgStr(x) == [kind |-> "str", label |-> x, subs |-> <<>>]
ArgSites(q) == [kind |-> "sites", label |-> NoLabel, subs |-> q]

\* the group's children as the constructor stores them
GroupOf(q) == [kind |-> "set", elems |-> {PyTuple(SiteId(q[k]), q[k]) : k \in 1 .. Len(q)}]

SiteInit(st, args) ==
  LET n == st.site_ix + 1 IN
  [st EXCEPT !.site_ix = n,
             !.s_sites[n] = IF args.kind = "sites" THEN GroupOf(args.subs) ELSE EmptyDict,
             !.s_producer[n] = NoChan,
             !.s_level[n] = INITIAL_SITE_LEVEL,
             !.s_label[n] = IF args.kind = "str" THEN args.label ELSE NoLabel]

\* `id in self._sites`: key membership of a dict, element membership of a set
PyIn(key, coll) ==
  IF coll.kind = "dict" THEN \E e \in coll.elems : e.key = key
  ELSE key \in coll.elems

\* Site.site(id)
SiteSite(st, g, key) ==
  IF PyIn(key, st.s_sites[g])
  THEN IF st.s_sites[g].kind = "dict"
       THEN [err |-> "none", site |-> (CHOOSE e \in st.s_sites[g].elems : e.key = key).val]
       ELSE [err |-> "TypeError", site |-> NoSite]
  ELSE [err |-> "AttributeError", site |-> NoSite]

\* --------------------------------------------------------------- Channel
RECURSIVE AddInputFrom(_, _, _, _)
AddInputFrom(st, c, q, k) ==
  IF k > Len(q) THEN st
  ELSE LET s == q[k]
           st1 == IF s \in Range(st.c_source[c]) THEN st
                  ELSE [st EXCEPT !.c_source[c] = Append(@, s)]
       IN AddInputFrom(st1, c, q, k + 1)

\* Channel.add_input(sites)
add_input(st, c, arg) == [st |-> AddInputFrom(st, c, arg.elems, 1), err |-> "none"]

RECURSIVE DiscardInputFrom(_, _, _, _)
DiscardInputFrom(st, c, q, k) ==
  IF k > Len(q) THEN [st |-> st, err |-> "none"]
  ELSE LET s == q[k] IN
       IF s \in Range(st.c_source[c])
       THEN DiscardInputFrom([st EXCEPT !.c_source[c] = RemoveAt(@, IndexOf(@, s))], c, q, k + 1)
       ELSE [st |-> st, err |-> "ValueError"]

\* Channel.discard_input(sites)
discard_input(st, c, arg) == DiscardInputFrom(st, c, arg.elems, 1)

\* add_output without the single-producer test
AddOutputOne_Unchecked(st, c, s) ==
  [st |-> [st EXCEPT !.s_producer[s] = c, !.c_target[c] = @ \cup {s}], err |-> "none"]

\* the else-branch of add_output: one site
AddOutputOne(st, c, s) ==
  IF st.s_producer[s] = NoChan \/ st.s_producer[s] = c
  THEN [st |-> [st EXCEPT !.s_producer[s] = c, !.c_target[c] = @ \cup {s}], err |-> "none"]
  ELSE [st |-> st, err |-> "Exception"]

RECURSIVE AddOutputFrom(_, _, _, _)
AddOutputFrom(st, c, q, k) ==
  IF k > Len(q) THEN [st |-> st, err |-> "none"]
  ELSE LET r == AddOutputOne(st, c, q[k]) IN
       IF r.err = "none" THEN AddOutputFrom(r.st, c, q, k + 1) ELSE r

\* Channel.add_output(sites)
add_output(st, c, arg) == AddOutputFrom(st, c, arg.elems, 1)

\* the else-branch of discard_output: one site
DiscardOutputOne(st, c, s) ==
  IF s \in st.c_target[c]
  THEN [st EXCEPT !.s_source[s] = "None", !.c_target[c] = @ \ {s}]
  ELSE st

RECURSIVE DiscardOutputFrom(_, _, _, _)
DiscardOutputFrom(st, c, q, k) ==
  IF k > Len(q) THEN st
  ELSE DiscardOutputFrom(DiscardOutputOne(st, c, q[k]), c, q, k + 1)

\* Channel.discard_output(sites)
discard_output(st, c, arg) == [st |-> DiscardOutputFrom(st, c, arg.elems, 1), err |-> "none"]

\* Channel.__init__(nw, source, target)
ChannelInit(st, source, target) ==
  LET n == st.channel_ix + 1
      st0 == [st EXCEPT !.channel_ix = n,
                        !.c_label[n] = ChannelId(n),
                        !.c_source[n] = <<>>,
                        !.c_target[n] = {}]
      st1 == add_input(st0, n, source).st
      r == add_output(st1, n, target)
  IN IF r.err = "none"
     THEN [st |-> [r.st EXCEPT !.c_level[n] = UNASSIGNED, !.c_built[n] = TRUE],
           err |-> "none", chan |-> n]
     ELSE [st |-> r.st, err |-> r.err, chan |-> NoChan]

\* --------------------------------------------------------------- Network
Keys(d) == {d[k].key : k \in 1 .. Len(d)}
Values(d) == {d[k].val : k \in 1 .. Len(d)}
Get(d, key) == CHOOSE k \in 1 .. Len(d) : d[k].key = key
DictGet(d, key) == d[Get(d, key)].val
\* d[key] = val: a present key keeps its place, a new key goes last
DictSet(d, key, val) ==
  IF key \in Keys(d) THEN [d EXCEPT ![Get(d, key)] = [key |-> key, val |-> val]]
  ELSE Append(d, [key |-> key, val |-> val])

\* Network.site(x, create=...)
NetworkSite(st, x, create) ==
  IF x \in Keys(st.N_sites)
  THEN [st |-> st, err |-> "none", site |-> DictGet(st.N_sites, x)]
  ELSE IF create
       THEN LET st1 == SiteInit(st, ArgStr(x))
                new == st1.site_ix
            IN [st |-> [st1 EXCEPT !.N_sites = DictSet(@, SiteId(new), new)],
                err |-> "none", site |-> new]
       ELSE [st |-> st, err |-> "KeyError", site |-> NoSite]

\* Network.channel(source, target)
NetworkChannel(st, source, target) ==
  LET r == ChannelInit(st, source, target) IN
  IF r.err = "none"
  THEN [st |-> [r.st EXCEPT !.N_channels = DictSet(@, ChannelId(r.chan), r.chan)],
        err |-> "none", chan |-> r.chan]
  ELSE r

\* the seeding loop of Network.__init__(site_ids=..., channel_ids=...); a
\* channel() that raises ends the constructor: no network comes to exist
RECURSIVE SeedFrom(_, _, _, _, _)
SeedFrom(st, site_ids, channel_ids, k, tail) ==
  IF k > Len(site_ids) THEN [st |-> st, err |-> "none"]
  ELSE LET r == NetworkSite(st, site_ids[k], TRUE)
           site == r.site
       IN IF tail # NoSite
          THEN LET rc == NetworkChannel(r.st, One(tail), One(site)) IN
               IF rc.err # "none" THEN [st |-> rc.st, err |-> rc.err]
               ELSE LET st2 == IF channel_ids # <<>>
                               THEN [rc.st EXCEPT !.c_label[rc.chan] = Head(channel_ids)]
                               ELSE rc.st
                        rest == IF channel_ids # <<>> THEN Tail(channel_ids) ELSE channel_ids
                    IN SeedFrom(st2, site_ids, rest, k + 1, site)
          ELSE SeedFrom(r.st, site_ids, channel_ids, k + 1, site)

NetworkInit(site_ids, channel_ids) == SeedFrom(Network0, site_ids, channel_ids, 1, NoSite)

\* ------------------------------------------------- Network.compute_order
RegSites(st) == Values(st.N_sites)
RegChannels(st) == Values(st.N_channels)

\* the reset that leaves a produced site at the level it had
ResetSites_KeepProduced(st) ==
  [st EXCEPT !.s_level = [s \in SiteIdx |->
     IF s \in RegSites(st) /\ st.s_producer[s] = NoChan THEN ORPHAN ELSE @[s]]]

\* "reset order": the loop over self._sites.values()
ResetSites(st) ==
  [st EXCEPT !.s_level = [s \in SiteIdx |->
     IF s \in RegSites(st)
     THEN (IF st.s_producer[s] = NoChan THEN ORPHAN ELSE UNREACHED)
     ELSE @[s]]]

\* the channel reset without the seeding of the root sites
ResetChannels_NoSeed(st) ==
  [st EXCEPT !.c_level = [c \in ChanIdx |-> IF c \in RegChannels(st) THEN UNREACHED ELSE @[c]]]

\* the loop over self._channels.values() that resets channels and seeds roots
ResetChannels(st) ==
  LET srcs == UNION {Range(st.c_source[c]) : c \in RegChannels(st)} IN
  [st EXCEPT !.c_level = [c \in ChanIdx |-> IF c \in RegChannels(st) THEN UNREACHED ELSE @[c]],
             !.s_level = [s \in SiteIdx |->
                IF s \in srcs /\ @[s] = ORPHAN THEN 0 ELSE @[s]]]

\* the visit with the targets promoted to the channel's own step
Visit_SameStep(sd, c, i) ==
  LET st == sd.st IN
  IF st.c_level[c] < i THEN sd
  ELSE IF \E s \in Range(st.c_source[c]) : st.s_level[s] > i THEN sd
  ELSE [st |-> [st EXCEPT !.c_level[c] = i,
                          !.s_level = [s \in SiteIdx |->
                             IF s \in st.c_target[c] THEN i ELSE @[s]]],
        done |-> FALSE]

\* the body of `for c in self._channels.values()` for one channel at step i
Visit(sd, c, i) ==
  LET st == sd.st IN
  IF st.c_level[c] < i THEN sd
  ELSE IF \E s \in Range(st.c_source[c]) : st.s_level[s] > i THEN sd
  ELSE [st |-> [st EXCEPT !.c_level[c] = i,
                          !.s_level = [s \in SiteIdx |->
                             IF s \in st.c_target[c] THEN i + 1 ELSE @[s]]],
        done |-> FALSE]

\* one pass over the channel mapping, in mapping order
RECURSIVE PassFrom(_, _, _)
PassFrom(sd, i, k) ==
  IF k > Len(sd.st.N_channels) THEN sd
  ELSE PassFrom(Visit(sd, sd.st.N_channels[k].val, i), i, k + 1)

Cap(st) == Len(st.N_channels) + CAP_SLACK

\* the loop written `while i <= len(self._channels) + 10`
RECURSIVE Relax_PastCap(_, _, _)
Relax_PastCap(st, done, i) ==
  IF i <= Cap(st)
  THEN LET sd == PassFrom([st |-> st, done |-> TRUE], i, 1) IN
       Relax_PastCap(sd.st, sd.done, i + 1)
  ELSE [st |-> st, i |-> i]

\* `while not done and i < len(self._channels) + 10`
RECURSIVE Relax(_, _, _)
Relax(st, done, i) ==
  IF ~done /\ i < Cap(st)
  THEN LET sd == PassFrom([st |-> st, done |-> TRUE], i, 1) IN
       Relax(sd.st, sd.done, i + 1)
  ELSE [st |-> st, i |-> i]

\* a sort that puts an element before the elements of equal key
RECURSIVE InsertByKey_BeforeEqual(_, _, _)
InsertByKey_BeforeEqual(q, e, key) ==
  IF q = <<>> THEN <<e>>
  ELSE IF key[e] <= key[q[Len(q)]]
       THEN Append(InsertByKey_BeforeEqual(SubSeq(q, 1, Len(q) - 1), e, key), q[Len(q)])
       ELSE Append(q, e)

\* sorted(q, key=...): Python's stable sort, as an insertion sort; key is
\* the function from the elements to their sort keys
RECURSIVE InsertByKey(_, _, _)
InsertByKey(q, e, key) ==
  IF q = <<>> THEN <<e>>
  ELSE IF key[e] < key[q[Len(q)]]
       THEN Append(InsertByKey(SubSeq(q, 1, Len(q) - 1), e, key), q[Len(q)])
       ELSE Append(q, e)

RECURSIVE SortedFrom(_, _, _, _)
SortedFrom(acc, q, k, key) ==
  IF k > Len(q) THEN acc
  ELSE SortedFrom(InsertByKey(acc, q[k], key), q, k + 1, key)

Sorted(q, key) == SortedFrom(<<>>, q, 1, key)

\* "Sort in structure order"
Finalize(st) ==
  LET ByLevel == [e \in Range(st.N_channels) |-> st.c_level[e.val]]
      BySiteLevel == [s \in SiteIdx |-> 0 - st.s_level[s]]
  IN [st EXCEPT !.N_channels = Sorted(@, ByLevel),
                !.c_source = [c \in ChanIdx |->
                   IF c \in RegChannels(st) THEN Sorted(@[c], BySiteLevel) ELSE @[c]]]

\* "Evaluate the result": the three warnings
Diagnostics(st, i) ==
  [failed |-> i > Len(st.N_channels) + WARN_SLACK,
   orphaned |-> \E s \in RegSites(st) : st.s_level[s] = ORPHAN,
   unreachable |-> \E c \in RegChannels(st) : st.c_level[c] = UNREACHED]

compute_order(st) ==
  LET r == Relax(ResetChannels(ResetSites(st)), FALSE, 0)
      fin == Finalize(r.st)
  IN [st |-> fin, i |-> r.i, warn |-> Diagnostics(fin, r.i)]

\* ---------------------------------------------------------------- actions
Sites == 0 .. site_ix
Objects == (site_ix + 1) + (channel_ix + 1)
Channels == {c \in 0 .. channel_ix : c_built[c]}
SingleArgs == {One(s) : s \in Sites}
\* one site, or a list of up to MaxList different sites
Distinct(q) == \A j, k \in 1 .. Len(q) : j # k => q[j] # q[k]
SitesArgs == SingleArgs \cup {List(q) : q \in {p \in SeqsUpTo(Sites, MaxList) : Distinct(p)}}

SourceArgs == {NoArg} \cup {One(s) : s \in Sites \cap {0}}

\* Site(nw, *args), called directly
SiteAct(args) ==
  /\ Objects < MaxObjects
  /\ Install(SiteInit(St, args))
  /\ ret' = Ret("Site", "none", site_ix + 1)

\* g.site(key)
SiteSiteAct(g, key) ==
  LET r == SiteSite(St, g, key) IN
  /\ Install(St)
  /\ ret' = Ret("Site.site", r.err, r.site)

\* nw.site(x, create=create)
NetworkSiteAct(x, create) ==
  LET r == NetworkSite(St, x, create) IN
  /\ create /\ x \notin Keys(N_sites) => Objects < MaxObjects
  /\ Install(r.st)
  /\ ret' = Ret("Network.site", r.err, r.site)

\* Channel(nw, source, target), called directly
ChannelAct(source, target) ==
  LET r == ChannelInit(St, source, target) IN
  /\ Objects < MaxObjects
  /\ Install(r.st)
  /\ ret' = Ret("Channel", r.err, NoSite)

\* nw.channel(source, target)
NetworkChannelAct(source, target) ==
  LET r == NetworkChannel(St, source, target) IN
  /\ Objects < MaxObjects
  /\ Install(r.st)
  /\ ret' = Ret("Network.channel", r.err, NoSite)

AddInputAct(c, arg) ==
  LET r == add_input(St, c, arg) IN
  /\ Install(r.st)
  /\ ret' = Ret("add_input", r.err, NoSite)

DiscardInputAct(c, arg) ==
  LET r == discard_input(St, c, arg) IN
  /\ Install(r.st)
  /\ ret' = Ret("discard_input", r.err, NoSite)

AddOutputAct(c, arg) ==
  LET r == add_output(St, c, arg) IN
  /\ Install(r.st)
  /\ ret' = Ret("add_output", r.err, NoSite)

DiscardOutputAct(c, arg) ==
  LET r == discard_output(St, c, arg) IN
  /\ Install(r.st)
  /\ ret' = Ret("discard_output", r.err, NoSite)

\* nw.compute_order(); rep counts the calls made in a row, up to two
ComputeOrderAct ==
  LET r == compute_order(St) IN
  /\ Install(r.st)
  /\ ret' = [Ret("compute_order", "none", NoSite)
               EXCEPT !.i = r.i, !.warn = r.warn,
                      !.rep = IF ret.op = "compute_order" THEN 2 ELSE 1]

\* Network(site_ids=..., channel_ids=...)
InitWith(site_ids, channel_ids) ==
  LET r == NetworkInit(site_ids, channel_ids) IN
  /\ r.err = "none"
  /\ site_ix = r.st.site_ix
  /\ channel_ix = r.st.channel_ix
  /\ N_sites = r.st.N_sites
  /\ N_channels = r.st.N_channels
  /\ s_label = r.st.s_label
  /\ s_sites = r.st.s_sites
  /\ s_producer = r.st.s_producer
  /\ s_level = r.st.s_level
  /\ s_source = r.st.s_source
  /\ c_built = r.st.c_built
  /\ c_label = r.st.c_label
  /\ c_source = r.st.c_source
  /\ c_target = r.st.c_target
  /\ c_level = r.st.c_level
  /\ ret = Ret("Network", "none", NoSite)

\* ---------------------------------------------------------- specifications
\* Spec: wiring channels to sites, with single sites and with lists of sites;
\* a new channel's source is the empty list or the first site
Init == \E site_ids \in SeqsUpTo({"A"}, MaxSeed) : InitWith(site_ids, <<>>)

Next ==
  \/ SiteAct(ArgNone)
  \/ \E source \in SourceArgs, target \in SitesArgs : ChannelAct(source, target)
  \/ \E source \in SourceArgs, target \in SitesArgs : NetworkChannelAct(source, target)
  \/ \E c \in Channels, arg \in SitesArgs : AddOutputAct(c, arg)
  \/ \E c \in Channels, arg \in SitesArgs : DiscardOutputAct(c, arg)
  \/ \E c \in Channels, arg \in SingleArgs : DiscardInputAct(c, arg)

Spec == Init /\ [][Next]_vars

\* SpecOrder: building the graph one site at a time, re-wiring it, and
\* levelling it.  At most MaxLoose sites are made outside the network's
\* mapping, and a channel is given at most MaxSources sources.
Loose == Sites \ Values(N_sites)

NextOrder ==
  \/ (Cardinality(Loose) < MaxLoose /\ SiteAct(ArgNone))
  \/ NetworkSiteAct("A", TRUE)
  \/ \E source, target \in SingleArgs : ChannelAct(source, target)
  \/ \E source \in SingleArgs \cup {NoArg}, target \in SingleArgs :
        NetworkChannelAct(source, target)
  \/ \E c \in Channels, arg \in SingleArgs :
        Len(c_source[c]) < MaxSources /\ AddInputAct(c, arg)
  \/ ComputeOrderAct

SpecOrder == Init /\ [][NextOrder]_vars

\* SpecLayers: a network built through the network only: its sites by
\* nw.site(x, create=True), its channels by nw.channel, add_input and
\* add_output, with single sites and with lists of sites; nothing is discarded
NextLayers ==
  \/ NetworkSiteAct("A", TRUE)
  \/ \E source \in SingleArgs \cup {NoArg}, target \in SitesArgs :
        NetworkChannelAct(source, target)
  \/ \E c \in Channels, arg \in SingleArgs :
        Len(c_source[c]) < MaxSources /\ AddInputAct(c, arg)
  \/ \E c \in Channels, arg \in SitesArgs : AddOutputAct(c, arg)
  \/ ComputeOrderAct

SpecLayers == Init /\ [][NextLayers]_vars

\* SpecRegistry: looking sites up by name in the network and in group
\* sites, from networks seeded with names and channel labels
Groups == {q \in SeqsUpTo(Sites, MaxList) : q # <<>> /\ Distinct(q)}
SiteKeys ==
  {PyStr(x) : x \in Names \cup {SiteId(s) : s \in Sites}}
    \cup {PyTuple(SiteId(s), s) : s \in Sites}

InitRegistry ==
  \E site_ids \in SeqsUpTo(Names, MaxSeed), channel_ids \in {<<>>, <<"f">>} :
     InitWith(site_ids, channel_ids)

NextRegistry ==
  \/ \E x \in Names, create \in BOOLEAN : NetworkSiteAct(x, create)
  \/ SiteAct(ArgStr("A"))
  \/ \E q \in Groups : SiteAct(ArgSites(q))
  \/ \E g \in Sites, key \in SiteKeys : SiteSiteAct(g, key)

SpecRegistry == InitRegistry /\ [][NextRegistry]_vars

\* ================================================================ claims
\* every site in a channel's target set has that channel as its producer
TargetsHaveProducer == \A c \in ChanIdx : \A s \in c_target[c] : s_producer[s] = c

\* the sites of arg that a channel other than c2 targets
Contested(c2, arg) == {s \in Range(arg.elems) : \E c1 \in ChanIdx \ {c2} : s \in c_target[c1]}

\* r is the outcome of a call by channel c2 with target argument arg: it
\* raised, and every contested site kept its producer
Refused(r, c2, arg) ==
  /\ r.err = "Exception"
  /\ \A s \in Contested(c2, arg) : r.st.s_producer[s] = s_producer[s] /\ s_producer[s] # c2

\* a call that would give a targeted site a second producer fails, and the
\* site keeps its producer: add_output on a built channel, Channel(...) and
\* Network.channel(...)
SecondProducerFails ==
  \A arg \in SitesArgs :
    /\ \A c2 \in Channels :
         Contested(c2, arg) # {} => Refused(add_output(St, c2, arg), c2, arg)
    /\ Contested(channel_ix + 1, arg) # {} =>
         \A source \in SourceArgs :
           /\ Refused(ChannelInit(St, source, arg), channel_ix + 1, arg)
           /\ Refused(NetworkChannel(St, source, arg), channel_ix + 1, arg)

\* C1: in every reachable state every site of a channel's target set has that
\* channel as its producer (so no site is in two target sets), and a
\* construction or add_output that targets a site another channel already
\* targets fails and leaves the site's producer as it was.
C1_SingleProducer == TargetsHaveProducer /\ SecondProducerFails

\* a second channel was refused a site that the first still targets and produces
C1_Witness ==
  /\ ret.err = "Exception"
  /\ ret.op \in {"add_output", "Channel", "Network.channel"}
  /\ \E c1 \in Channels, s \in Sites : s \in c_target[c1] /\ s_producer[s] = c1

\* C2: after c.discard_output(s) for a site s of c's target set, s is out of
\* the target set and has no producer, so that add_output(s) on any other
\* built channel then succeeds and makes that channel the producer.
C2_DiscardFreesSite ==
  [][\A c \in Channels : \A s \in c_target[c] :
       DiscardOutputAct(c, One(s)) =>
         /\ s \notin c_target'[c]
         /\ s_producer'[s] = NoChan
         /\ \A c2 \in Channels \ {c} :
              LET r == add_output(St', c2, One(s)) IN
              r.err = "none" /\ r.st.s_producer[s] = c2]_vars

\* what a single-producer violation must leave alone: the producer of every
\* site, the sources and targets of every built channel, the channel mapping
Graph == <<s_producer, [c \in Channels |-> <<c_source[c], c_target[c]>>], N_channels>>

\* C3: a call that raises the single-producer violation (add_output, or a
\* construction, with one target or a list) leaves the graph as it was.
C3_ViolationLeavesGraph == [][ret'.err = "Exception" => Graph' = Graph]_vars

\* ------------------------------------------------------------- levelling
Computed == ret.op = "compute_order"

\* the links of linear chains: a channel of the network with one source and
\* one target, both sites of the network's mapping
Links ==
  {l \in Values(N_channels) \X Values(N_sites) \X Values(N_sites) :
     c_source[l[1]] = <<l[2]>> /\ c_target[l[1]] = {l[3]}}

\* the links at position k of a linear chain, counted from a root s0: link k
\* is channel ck with its source sk and its target s(k+1)
RECURSIVE ChainLinks(_)
ChainLinks(k) ==
  IF k = 0 THEN {l \in Links : s_producer[l[2]] = NoChan}
  ELSE {l \in Links : \E m \in ChainLinks(k - 1) : m[3] = l[2]}

\* C4: after compute_order, in every linear chain s0 -> s1 -> ... of the
\* network (n >= 2 sites, ci the channel from si to s(i+1)), site si has
\* level i and channel ci has level i.
C4_ChainLevels ==
  Computed => \A k \in 0 .. (MaxSlots - 1) : \A l \in ChainLinks(k) :
    s_level[l[2]] = k /\ c_level[l[1]] = k /\ s_level[l[3]] = k + 1

\* a chain of three sites has been levelled
C4_Witness == Computed /\ ChainLinks(1) # {}

\* channel c reads a site that channel d targets
DependsOn(c, d) == \E s \in Range(c_source[c]) : s \in c_target[d]

RECURSIVE ReachFrom(_, _)
ReachFrom(F, n) ==
  IF n = 0 THEN F
  ELSE ReachFrom(F \cup {d \in Values(N_channels) : \E c \in F : DependsOn(c, d)}, n - 1)

\* the channels c depends on, directly or through other channels
Upstream(c) ==
  ReachFrom({d \in Values(N_channels) : DependsOn(c, d)}, Len(N_channels))

\* the channels of the network that lie on a dependency cycle
OnCycle == {c \in Values(N_channels) : c \in Upstream(c)}

\* C5: after compute_order on a cyclic network every channel on a cycle is
\* left at 1000 and the 'failed to compute network structure' warning is
\* given.
C5_CycleReported ==
  Computed /\ OnCycle # {} =>
    /\ \A c \in OnCycle : c_level[c] = UNREACHED
    /\ ret.warn.failed

\* every source of a channel of the network is a site of the network's mapping
SourcesRegistered ==
  \A c \in Values(N_channels) : Range(c_source[c]) \subseteq Values(N_sites)

SameLevels ==
  /\ \A s \in Sites : s_level'[s] = s_level[s]
  /\ \A c \in Values(N_channels) : c_level'[c] = c_level[c]

\* C6 as claimed: a second compute_order right after a first leaves every
\* site and every channel at the level the first gave it.
C6_Idempotent == [][Computed /\ ComputeOrderAct => SameLevels]_vars

\* C6 as amended: the same, for a network whose channels read only sites of
\* the network's mapping.
C6_IdempotentRegistered ==
  [][Computed /\ SourcesRegistered /\ ComputeOrderAct => SameLevels]_vars

\* a network with a resolved and re-ordered channel has been levelled twice
C6_Witness ==
  /\ Computed /\ ret.rep = 2 /\ SourcesRegistered
  /\ \E c \in Values(N_channels) : c_level[c] = 1
  /\ Len(N_channels) >= 2 /\ N_channels[1].val > N_channels[2].val

IsSource(s) == \E c \in Values(N_channels) : s \in Range(c_source[c])

\* a registered site is at -1 exactly when it has no producer and no channel
\* of the network reads it
OrphanExactly ==
  \A s \in Values(N_sites) :
    s_level[s] = ORPHAN <=> (s_producer[s] = NoChan /\ ~IsSource(s))

\* C7 as claimed: after compute_order the orphans are exactly the unproduced,
\* unread sites, and in a network with no channels every site is at -1.
C7_Orphans ==
  Computed =>
    /\ OrphanExactly
    /\ N_channels = <<>> => \A s \in Values(N_sites) : s_level[s] = ORPHAN

\* C7 as amended: in a network with no channels every site without a
\* producer is at -1, and a site that a channel made outside the network's
\* mapping produces is at 1000.
C7_OrphansUnproduced ==
  Computed =>
    /\ OrphanExactly
    /\ N_channels = <<>> => \A s \in Values(N_sites) :
         s_level[s] = IF s_producer[s] = NoChan THEN ORPHAN ELSE UNREACHED

\* levelled: an orphan beside a root that a channel reads
C7_Witness ==
  /\ Computed
  /\ \E s \in Values(N_sites) : s_level[s] = ORPHAN
  /\ \E s \in Values(N_sites) : s_level[s] = 0 /\ IsSource(s)

\* C8: compute_order ends, having made at most channel_count + 10 passes.
C8_PassesBounded == Computed => ret.i <= Len(N_channels) + 10

\* levelled with a channel left unreachable after at least two passes
C8_Witness == Computed /\ ret.warn.unreachable /\ ret.i >= 2

\* -------------------------------------------------------------- look-ups
\* C9: nw.site(x) for an unknown x raises the not-found error and leaves the
\* site mapping alone; nw.site(x, create=True) adds a site only if x is
\* unknown, and afterwards nw.site(x) returns the site it returned and a
\* repeated nw.site(x, create=True) returns it again and adds nothing.
C9_GetOrCreate ==
  [][\A x \in Names :
       /\ (x \notin Keys(N_sites) /\ NetworkSiteAct(x, FALSE)) =>
            ret'.err = "KeyError" /\ N_sites' = N_sites
       /\ NetworkSiteAct(x, TRUE) =>
            /\ ret'.err = "none"
            /\ x \in Keys(N_sites) => N_sites' = N_sites
            /\ LET get == NetworkSite(St', x, FALSE)
                   again == NetworkSite(St', x, TRUE)
               IN /\ get.err = "none" /\ get.site = ret'.site
                  /\ again.site = ret'.site /\ again.st.N_sites = N_sites']_vars

\* C10: a group site made from the sites q[1], q[2], ... returns q[k] for
\* the id of q[k], and raises the not-found error exactly for the other ids.
C10_GroupLookup ==
  [][\A q \in Groups :
       SiteAct(ArgSites(q)) =>
         LET g == site_ix' IN
         /\ \A k \in 1 .. Len(q) :
              SiteSite(St', g, PyStr(SiteId(q[k]))) = [err |-> "none", site |-> q[k]]
         /\ \A s \in Sites \ Range(q) :
              SiteSite(St', g, PyStr(SiteId(s))).err = "AttributeError"]_vars

\* ------------------------------------------------------ dependency layering
Acyclic == OnCycle = {}

AllRegistered == Sites \subseteq Values(N_sites)

\* every site that has a producer has a channel of the network for it
ProducersRegistered ==
  \A s \in Sites : s_producer[s] # NoChan => s_producer[s] \in Values(N_channels)

MaxOf(S) == CHOOSE x \in S : \A y \in S : y <= x

\* the step at which all the sources of channel c are ready
ReadyStep(c) ==
  IF c_source[c] = <<>> THEN 0 ELSE MaxOf({s_level[s] : s \in Range(c_source[c])})

Layered ==
  /\ \A c \in Values(N_channels) : c_level[c] # UNREACHED
  /\ \A s \in Values(N_sites) : s_producer[s] = NoChan /\ IsSource(s) => s_level[s] = 0
  /\ \A c \in Values(N_channels) : c_level[c] = ReadyStep(c)
  /\ \A c \in Values(N_channels) : \A s \in c_target[c] : s_level[s] = c_level[c] + 1

\* C11: after compute_order on an acyclic network whose sites are all in the
\* network's mapping and whose channels were made by nw.channel, add_input and
\* add_output only, no channel is left at 1000, every root that is read is at
\* 0, every channel is at the highest level of its sources (0 without
\* sources), and every target is one above its channel.
C11_Layering == Computed /\ Acyclic /\ AllRegistered => Layered

\* the same when, besides, every producer is a channel of the network
LayeringOfRegisteredProducers ==
  Computed /\ Acyclic /\ AllRegistered /\ ProducersRegistered => Layered

\* ----------------------------------------------------------- final order
\* the place of channel c in the mapping d
Place(d, c) == CHOOSE k \in 1 .. Len(d) : d[k].val = c

\* C12: compute_order leaves the channel mapping in non-decreasing level
\* order, channels of equal level in the order they had before the call, and
\* the sources of every channel of the mapping in non-increasing level order;
\* the channels of the mapping, the sources of every channel and the targets
\* of every channel are the same as before the call.
C12_FinalOrder ==
  [][ComputeOrderAct =>
       /\ \A j, k \in 1 .. Len(N_channels') : j < k =>
            LET a == N_channels'[j].val
                b == N_channels'[k].val
            IN /\ c_level'[a] <= c_level'[b]
               /\ c_level'[a] = c_level'[b] => Place(N_channels, a) < Place(N_channels, b)
       /\ \A c \in Values(N_channels') : \A j, k \in 1 .. Len(c_source'[c]) :
            j < k => s_level'[c_source'[c][j]] >= s_level'[c_source'[c][k]]
       /\ Len(N_channels') = Len(N_channels)
       /\ Range(N_channels') = Range(N_channels)
       /\ \A c \in ChanIdx :
            /\ Len(c_source'[c]) = Len(c_source[c])
            /\ Range(c_source'[c]) = Range(c_source[c])
            /\ c_target'[c] = c_target[c]]_vars

\* levelled: the later channel of the mapping now comes first, and a channel
\* of the mapping has two sources of different levels
C12_Witness ==
  /\ Computed
  /\ Len(N_channels) = 2 /\ N_channels[1].val > N_channels[2].val
  /\ c_level[N_channels[1].val] < c_level[N_channels[2].val]
  /\ \E c \in Values(N_channels) :
       /\ Len(c_source[c]) = 2
       /\ s_level[c_source[c][1]] > s_level[c_source[c][2]]

====
